---- MODULE Spec2Model ----
(***************************************************************************)
(* A model of the RCA agent backend (src/backend/rca_agent.py and          *)
(* src/backend/main.py): the sync run that reconciles the blob source with *)
(* the SQLite table rca_documents and the Chroma collection, the chat      *)
(* session tables, and the similarity search.                              *)
(***************************************************************************)
EXTENDS Integers, Sequences, FiniteSets, TLC

\* Python None / SQL NULL.
None == "None"

(***************************************************************************)
(* Bounds of the model.                                                    *)
(***************************************************************************)
\* Longest listing list_blobs() returns in one run.
MaxBlobs == 2

(***************************************************************************)
(* The blob source.  An object name is a directory part, a stem and a      *)
(* suffix, listed in the source's order of names.                          *)
(***************************************************************************)
BlobOrder ==
    << [dir |-> "a", stem |-> "x", suffix |-> ".txt"],
       [dir |-> "b", stem |-> "y", suffix |-> ".PDF"],
       [dir |-> "",  stem |-> "z", suffix |-> ".bin"] >>

BlobNames == { BlobOrder[k] : k \in 1..Len(BlobOrder) }

\* blob.md5_hash: a digest, or None (GCS reports none for composite objects).
\* The sync only stores hashes and compares them for equality, so two distinct
\* values show every case of equal and of different hashes.
Hashes == { None, "h1" }

\* os.path.basename(blob.name): the directory part is dropped.
Basename(name) == [stem |-> name.stem, suffix |-> name.suffix]

Filenames == { Basename(n) : n \in BlobNames }

\* str.lower() on the pieces of text that occur.
Lower(s) ==
    CASE s = ".PDF" -> ".pdf"
      [] s = ".TXT" -> ".txt"
      [] s = "Technical_Problem_Solving" -> "technical_problem_solving"
      [] s = "Category: " -> "category: "
      [] OTHER -> s

\* Path(filename).suffix.lower()
FileExt(filename) == Lower(filename.suffix)

\* Position of an object name in the source's (lexicographic) listing order.
NameRank(name) == CHOOSE k \in 1..Len(BlobOrder) : BlobOrder[k] = name

\* The listings list_blobs() can return: distinct object names in listing
\* order, each with its md5_hash.
IsListing(bs) ==
    /\ \A k \in 1..Len(bs) : bs[k].name \in BlobNames /\ bs[k].md5_hash \in Hashes
    /\ \A k \in 1..(Len(bs) - 1) : NameRank(bs[k].name) < NameRank(bs[k + 1].name)

Blob == [name : BlobNames, md5_hash : Hashes]

Listings ==
    UNION { { bs \in [1..n -> Blob] : IsListing(bs) } : n \in 0..MaxBlobs }

(***************************************************************************)
(* What the extraction model returns for a document: the keys the sync     *)
(* reads from extracted_data.                                              *)
(***************************************************************************)
ExtData ==
    { [project_name |-> "P1", problems |-> <<"p1">>, solutions |-> <<"s1">>,
       root_causes |-> <<"c1">>],
      [project_name |-> "P2", problems |-> <<"p1", "p2">>, solutions |-> <<>>,
       root_causes |-> <<"c2">>] }

\* sep.join(items), as a sequence of text pieces.
RECURSIVE Join(_, _)
Join(items, sep) ==
    IF Len(items) = 0 THEN <<>>
    ELSE IF Len(items) = 1 THEN <<items[1]>>
    ELSE <<items[1], sep>> \o Join(Tail(items), sep)

\* json.dumps of a list of strings, as a sequence of tokens.
JsonDumps(items) == <<"[">> \o Join(items, ",") \o <<"]">>

\* json.loads of such a text: the strings between the brackets and commas.
JsonLoads(text) ==
    LET n == (Len(text) - 1) \div 2
    IN  [k \in 1..n |-> text[2 * k]]

\* The text the sync embeds for a document (line 237).
EmbeddingText(project_name, problems, root_causes, solutions) ==
    <<"Project: ", project_name, "\nProblems: ">> \o Join(problems, ", ")
        \o <<"\nRoot Causes: ">> \o Join(root_causes, ", ")
        \o <<"\nSolutions: ">> \o Join(solutions, ", ")

\* genai.embed_content(...)["embedding"]: a function of the text alone.
GetEmbedding(text) == [embedding_of |-> text]

(***************************************************************************)
(* extract_rca_content_from_bytes: every outcome it can have for a file.   *)
(* result is <<>> for the None it returns and <<data>> for a record;       *)
(* gen_calls counts the generate_content call it made.                     *)
(***************************************************************************)
SupportedExts == { ".txt", ".md", ".docx", ".pdf" }

ExtractOutcomes(filename) ==
    IF FileExt(filename) \notin SupportedExts
    THEN \* line 122: unsupported file type, the model is never called
         { [result |-> <<>>, gen_calls |-> 0] }
    ELSE \* .docx and .pdf decoding can raise before the model is called;
         \* decode('utf-8', errors='ignore') cannot
         ( IF FileExt(filename) \in { ".docx", ".pdf" }
           THEN { [result |-> <<>>, gen_calls |-> 0] }
           ELSE {} )
         \* generate_content raises, or its text is not JSON (line 155)
         \cup { [result |-> <<>>, gen_calls |-> 1] }
         \* a parsed record
         \cup { [result |-> <<e>>, gen_calls |-> 1] : e \in ExtData }

(***************************************************************************)
(* State.                                                                  *)
(***************************************************************************)
AllRuns == { "run1", "run2" }

VARIABLES
    rca_documents,  \* table rca_documents: a set of rows
    rowid_seq,      \* the AUTOINCREMENT sequence of rca_documents
    collection,     \* the Chroma collection: id string -> entry
    sync,           \* per sync request: its position and locals
    chat_sessions,  \* table chat_sessions: a set of rows
    chat_messages,  \* table chat_messages: a set of rows
    message_seq,    \* the AUTOINCREMENT sequence of chat_messages
    uuid_seq,       \* how many uuid4() values were drawn
    foreign_keys,   \* whether this SQLite build enforces foreign keys
    clock,          \* the wall clock, in ticks of UTC
    utc_offset,     \* the server's local time zone: local time minus UTC
    req,            \* the chat request in progress: its position and locals
    search_out      \* the search_similar_problems call in progress, its result

syncVars == <<rca_documents, rowid_seq, collection, sync>>
chatVars == <<chat_sessions, chat_messages, message_seq, uuid_seq, foreign_keys,
              clock, utc_offset, req>>
vars == <<rca_documents, rowid_seq, collection, sync, chat_sessions,
          chat_messages, message_seq, uuid_seq, foreign_keys, clock, utc_offset,
          req, search_out>>

\* dict.get(key): None for a missing key.
DictGet(d, key) == IF key \in DOMAIN d THEN d[key] ELSE None

\* Lines 196-197: {filename: file_hash} of every row.
ExistingFiles(rows) ==
    [f \in { row.filename : row \in rows } |->
        (CHOOSE row \in rows : row.filename = f).file_hash]

\* Variant of HashMatches: the lookup uses a key the dict never holds (the
\* object name in place of the basename), so a stored hash is never found.
HashMatchesWrongKey(existing_files, filename, file_hash) ==
    None = file_hash

\* Line 205: existing_files.get(filename) == file_hash
HashMatches(existing_files, filename, file_hash) ==
    DictGet(existing_files, filename) = file_hash

\* The columns the upsert writes from a blob and its extracted data.
RowValues(filename, ext_data, file_hash) ==
    [filename |-> filename,
     project_name |-> ext_data.project_name,
     problems |-> JsonDumps(ext_data.problems),
     solutions |-> JsonDumps(ext_data.solutions),
     root_causes |-> JsonDumps(ext_data.root_causes),
     file_hash |-> file_hash]

WithId(vals, id) ==
    [id |-> id, filename |-> vals.filename, project_name |-> vals.project_name,
     problems |-> vals.problems, solutions |-> vals.solutions,
     root_causes |-> vals.root_causes, file_hash |-> vals.file_hash]

\* Variant of UpsertDocument: INSERT OR REPLACE, which deletes the conflicting
\* row and inserts the new one under the next id.
UpsertReplace(rows, seq, vals) ==
    [rows |-> { row \in rows : row.filename # vals.filename }
                \cup { WithId(vals, seq + 1) },
     seq |-> seq + 1]

\* Variant of UpsertDocument: a plain INSERT into a table whose filename
\* column is not UNIQUE.
UpsertAppend(rows, seq, vals) ==
    [rows |-> rows \cup { WithId(vals, seq + 1) }, seq |-> seq + 1]

\* Lines 220-230: INSERT ... ON CONFLICT(filename) DO UPDATE SET ..., commit.
\* A conflicting row keeps its id; a new row takes the next AUTOINCREMENT id.
UpsertDocument(rows, seq, vals) ==
    IF \E row \in rows : row.filename = vals.filename
    THEN [rows |-> { IF row.filename = vals.filename THEN WithId(vals, row.id) ELSE row
                     : row \in rows },
          seq |-> seq]
    ELSE [rows |-> rows \cup { WithId(vals, seq + 1) }, seq |-> seq + 1]

\* Lines 233-234: SELECT id ... WHERE filename = ?; str(fetchone()[0])
SelectId(rows, filename) ==
    ToString((CHOOSE row \in rows : row.filename = filename).id)

\* Lines 241-245: collection.upsert(ids=[doc_id], embeddings=[...], metadatas=[...])
CollectionUpsert(coll, doc_id, embedding, metadata) ==
    [k \in DOMAIN coll \cup { doc_id } |->
        IF k = doc_id THEN [embedding |-> embedding, metadata |-> metadata]
        ELSE coll[k]]

ZeroStats == [processed |-> 0, updated |-> 0, skipped |-> 0, errors |-> 0]

\* A request's locals.  log and ids_before record, for the properties below,
\* what the run did with each blob (its class, the generate and embed calls
\* made for it, the step that raised), the ids the rows had when it began, and
\* which of the blobs it has not classified yet the run just before it (if
\* that one returned) had enumerated under the same name with the same hash.
IdleRun ==
    [pc |-> "idle", blobs |-> <<>>, unchanged |-> {}, i |-> 1,
     existing_files |-> <<>>,
     stats |-> ZeroStats, log |-> <<>>, ids_before |-> <<>>, rca_data |-> <<>>,
     doc_id |-> "", embedding |-> <<>>, response |-> None]

NewLogEntry == [cls |-> "pending", gen |-> 0, emb |-> 0, failed |-> ""]

\* {filename: id} of every row.
RowIds(rows) ==
    [f \in { row.filename : row \in rows } |->
        (CHOOSE row \in rows : row.filename = f).id]

\* The blob the loop is at, and its filename (lines 202-203).
CurBlob(run) == run.blobs[run.i]
CurFilename(run) == Basename(CurBlob(run).name)

\* The positions of the listing bs whose blob the run before, prev, enumerated
\* with the same hash.
UnchangedSince(prev, bs) ==
    IF prev.pc = "done"
    THEN { k \in 1..Len(bs) : \E j \in 1..Len(prev.blobs) : prev.blobs[j] = bs[k] }
    ELSE {}

\* The loop counts the current blob under cls and goes on to the next one.
Classified(run, cls) ==
    [run EXCEPT !.stats[cls] = @ + 1, !.log[run.i].cls = cls, !.i = @ + 1,
                !.pc = "loop", !.rca_data = <<>>, !.doc_id = "",
                !.embedding = <<>>, !.unchanged = @ \ { run.i }]

\* Variant of CountError: the exception is not caught in the loop and ends
\* the request.
CountErrorUncaught(run, step) ==
    [run EXCEPT !.log[run.i].failed = step, !.pc = "aborted", !.response = "500"]

\* Variant of CountError: the loop goes on to the next blob without adding
\* to stats['errors'].
CountErrorUncounted(run, step) ==
    [Classified([run EXCEPT !.log[run.i].failed = step], "errors")
        EXCEPT !.stats = run.stats]

\* Lines 212-214 and 252-254: the step raised (or the extractor gave nothing);
\* the blob is counted in errors.
CountError(run, step) ==
    Classified([run EXCEPT !.log[run.i].failed = step], "errors")

\* Lines 193-199 (and main.py 62-66): a request starts a run.  The listing and
\* the SELECT are outside the loop's try: an error there ends the request.
SyncStart(r) ==
    /\ sync[r].pc \in { "idle", "done", "aborted" }
    /\ \/ \E bs \in Listings :
            sync' = [sync EXCEPT ![r] =
                [IdleRun EXCEPT !.pc = "loop", !.blobs = bs,
                    !.unchanged = UnchangedSince(sync[r], bs),
                    !.existing_files = ExistingFiles(rca_documents),
                    !.ids_before = RowIds(rca_documents),
                    !.log = [k \in 1..Len(bs) |-> NewLogEntry]]]
       \/ sync' = [sync EXCEPT ![r] =
                [IdleRun EXCEPT !.pc = "aborted", !.response = "500"]]
    /\ UNCHANGED <<rca_documents, rowid_seq, collection>>
    /\ UNCHANGED <<chatVars, search_out>>

\* Line 201 (and main.py 65-66): list_blobs() gives a lazy iterator, advanced
\* by the for statement outside the loop's try; the request that fetches the
\* page holding the next blob raises and ends the request.
SyncListingError(r) ==
    /\ sync[r].pc = "loop"
    /\ sync[r].i <= Len(sync[r].blobs)
    /\ sync' = [sync EXCEPT ![r].pc = "aborted", ![r].response = "500"]
    /\ UNCHANGED <<rca_documents, rowid_seq, collection>>
    /\ UNCHANGED <<chatVars, search_out>>

\* Lines 201-207: the stored hash equals the blob's.
SyncSkip(r) ==
    /\ sync[r].pc = "loop"
    /\ sync[r].i <= Len(sync[r].blobs)
    /\ HashMatches(sync[r].existing_files, CurFilename(sync[r]),
                   CurBlob(sync[r]).md5_hash)
    /\ sync' = [sync EXCEPT ![r] = Classified(@, "skipped")]
    /\ UNCHANGED <<rca_documents, rowid_seq, collection>>
    /\ UNCHANGED <<chatVars, search_out>>

\* Lines 209-210 (252-254 when it raises): blob.download_as_bytes()
SyncDownload(r) ==
    /\ sync[r].pc = "loop"
    /\ sync[r].i <= Len(sync[r].blobs)
    /\ ~HashMatches(sync[r].existing_files, CurFilename(sync[r]),
                    CurBlob(sync[r]).md5_hash)
    /\ \/ sync' = [sync EXCEPT ![r].pc = "extract"]
       \/ sync' = [sync EXCEPT ![r] = CountError(@, "download")]
    /\ UNCHANGED <<rca_documents, rowid_seq, collection>>
    /\ UNCHANGED <<chatVars, search_out>>

\* Variant of SyncExtract: when the extractor gives nothing, the row is
\* written all the same, with empty fields and the blob's hash.
SyncExtractWritesEmpty(r) ==
    /\ sync[r].pc = "extract"
    /\ \E out \in ExtractOutcomes(CurFilename(sync[r])) :
         LET run == [sync[r] EXCEPT !.log[sync[r].i].gen = @ + out.gen_calls]
             up == UpsertDocument(rca_documents, rowid_seq,
                       RowValues(CurFilename(sync[r]),
                                 [project_name |-> None, problems |-> <<>>,
                                  solutions |-> <<>>, root_causes |-> <<>>],
                                 CurBlob(sync[r]).md5_hash))
         IN  IF out.result = <<>>
             THEN /\ sync' = [sync EXCEPT ![r] = CountError(run, "extract")]
                  /\ rca_documents' = up.rows
                  /\ rowid_seq' = up.seq
             ELSE /\ sync' = [sync EXCEPT ![r] =
                                [run EXCEPT !.pc = "upsert", !.rca_data = out.result]]
                  /\ UNCHANGED <<rca_documents, rowid_seq>>
    /\ UNCHANGED collection
    /\ UNCHANGED <<chatVars, search_out>>

\* Lines 211-217: the extractor; no result is counted as an error.
SyncExtract(r) ==
    /\ sync[r].pc = "extract"
    /\ \E out \in ExtractOutcomes(CurFilename(sync[r])) :
         LET run == [sync[r] EXCEPT !.log[sync[r].i].gen = @ + out.gen_calls]
         IN  IF out.result = <<>>
             THEN sync' = [sync EXCEPT ![r] = CountError(run, "extract")]
             ELSE sync' = [sync EXCEPT ![r] =
                             [run EXCEPT !.pc = "upsert", !.rca_data = out.result]]
    /\ UNCHANGED <<rca_documents, rowid_seq, collection>>
    /\ UNCHANGED <<chatVars, search_out>>

\* Variant of SyncUpsert: the store error leaves the loop and ends the request.
SyncUpsertUncaught(r) ==
    /\ sync[r].pc = "upsert"
    /\ \/ LET up == UpsertDocument(rca_documents, rowid_seq,
                        RowValues(CurFilename(sync[r]), sync[r].rca_data[1],
                                  CurBlob(sync[r]).md5_hash))
          IN  /\ rca_documents' = up.rows
              /\ rowid_seq' = up.seq
              /\ sync' = [sync EXCEPT ![r].pc = "reread"]
       \/ /\ sync' = [sync EXCEPT ![r].pc = "aborted", ![r].response = "500"]
          /\ UNCHANGED <<rca_documents, rowid_seq>>
    /\ UNCHANGED collection
    /\ UNCHANGED <<chatVars, search_out>>

\* Lines 219-230 (252-254 when a statement raises; the table is then as before).
SyncUpsert(r) ==
    /\ sync[r].pc = "upsert"
    /\ \/ LET up == UpsertDocument(rca_documents, rowid_seq,
                        RowValues(CurFilename(sync[r]), sync[r].rca_data[1],
                                  CurBlob(sync[r]).md5_hash))
          IN  /\ rca_documents' = up.rows
              /\ rowid_seq' = up.seq
              /\ sync' = [sync EXCEPT ![r].pc = "reread"]
       \/ /\ sync' = [sync EXCEPT ![r] = CountError(@, "upsert")]
          /\ UNCHANGED <<rca_documents, rowid_seq>>
    /\ UNCHANGED collection
    /\ UNCHANGED <<chatVars, search_out>>

\* Lines 232-234 (252-254 when the SELECT raises).
SyncReread(r) ==
    /\ sync[r].pc = "reread"
    /\ \/ sync' = [sync EXCEPT ![r].pc = "embed",
                               ![r].doc_id = SelectId(rca_documents, CurFilename(sync[r]))]
       \/ sync' = [sync EXCEPT ![r] = CountError(@, "reread")]
    /\ UNCHANGED <<rca_documents, rowid_seq, collection>>
    /\ UNCHANGED <<chatVars, search_out>>

\* Lines 236-238 (252-254 when the embedding call raises).
SyncEmbed(r) ==
    /\ sync[r].pc = "embed"
    /\ LET run == [sync[r] EXCEPT !.log[sync[r].i].emb = @ + 1]
           ext == sync[r].rca_data[1]
       IN  \/ sync' = [sync EXCEPT ![r] =
                   [run EXCEPT !.pc = "vupsert",
                       !.embedding = <<GetEmbedding(EmbeddingText(ext.project_name,
                           ext.problems, ext.root_causes, ext.solutions))>>]]
           \/ sync' = [sync EXCEPT ![r] = CountError(run, "embed")]
    /\ UNCHANGED <<rca_documents, rowid_seq, collection>>
    /\ UNCHANGED <<chatVars, search_out>>

\* Lines 240-250 (252-254 when the vector upsert raises).
SyncVectorUpsert(r) ==
    /\ sync[r].pc = "vupsert"
    /\ \/ /\ collection' = CollectionUpsert(collection, sync[r].doc_id,
                sync[r].embedding[1],
                [filename |-> CurFilename(sync[r]),
                 project_name |-> sync[r].rca_data[1].project_name])
          /\ sync' = [sync EXCEPT ![r] = Classified(@,
                IF CurFilename(sync[r]) \in DOMAIN sync[r].existing_files
                THEN "updated" ELSE "processed")]
       \/ /\ sync' = [sync EXCEPT ![r] = CountError(@, "vupsert")]
          /\ UNCHANGED collection
    /\ UNCHANGED <<rca_documents, rowid_seq>>
    /\ UNCHANGED <<chatVars, search_out>>

\* Line 256 and main.py 63-64: the loop is over, the stats are returned.
SyncReturn(r) ==
    /\ sync[r].pc = "loop"
    /\ sync[r].i > Len(sync[r].blobs)
    /\ sync' = [sync EXCEPT ![r].pc = "done", ![r].response = "200"]
    /\ UNCHANGED <<rca_documents, rowid_seq, collection>>
    /\ UNCHANGED <<chatVars, search_out>>

SyncStep(r) ==
    \/ SyncStart(r)
    \/ SyncListingError(r)
    \/ SyncSkip(r)
    \/ SyncDownload(r)
    \/ SyncExtract(r)
    \/ SyncUpsert(r)
    \/ SyncReread(r)
    \/ SyncEmbed(r)
    \/ SyncVectorUpsert(r)
    \/ SyncReturn(r)

SyncInit ==
    /\ rca_documents = {}
    /\ rowid_seq = 0
    /\ collection = <<>>
    /\ sync = [r \in AllRuns |-> IdleRun]

(***************************************************************************)
(* Chat sessions and messages (rca_agent.py 329-378, 418-424).             *)
(***************************************************************************)
\* Sessions created, messages inserted and clock readings in one behaviour.
MaxSessions == 1
MaxMessages == 2
MaxClock == 1

\* str(uuid.uuid4()): the n-th value drawn; no two draws are equal.
Uuid(n) == "uuid-" \o ToString(n)

\* The session ids a request can carry: the endpoints pass any string on.
SessionIds == { Uuid(n) : n \in 1..MaxSessions } \cup { "no-such-session" }

Titles == { "T1" }
Contents == { <<"hello">> }

\* The init_database schema (50-89) declares the foreign key with ON DELETE
\* CASCADE; no connection runs PRAGMA foreign_keys, so SQLite enforces it
\* only when the library was compiled with SQLITE_DEFAULT_FOREIGN_KEYS=1.
ForeignKeysBuilds == BOOLEAN

\* Ticks in a day, and the time zones a server can run in (ticks from UTC).
DayLen == 2
UtcOffsets == { 0 - 1, 0, 1 }

\* A stored timestamp is text: the date, a separator and the time of day.
\* DEFAULT CURRENT_TIMESTAMP writes 'YYYY-MM-DD HH:MM:SS' in UTC;
\* datetime.now().isoformat() writes 'YYYY-MM-DDTHH:MM:SS.ffffff' in the
\* server's local time.  sep is 0 for the space and 1 for the 'T', the order
\* of the two characters.  (created_at is written once and never read by the
\* operations modelled here; it is left out.)
CurrentTimestamp(t) == [day |-> t \div DayLen, sep |-> 0, time |-> t % DayLen]
NowIso(t) ==
    [day |-> (t + utc_offset) \div DayLen, sep |-> 1,
     time |-> (t + utc_offset) % DayLen]

\* a <= b as SQLite orders the two texts (ORDER BY updated_at).
TsLeq(a, b) ==
    \/ a.day < b.day
    \/ a.day = b.day /\ a.sep < b.sep
    \/ a.day = b.day /\ a.sep = b.sep /\ a.time <= b.time

\* A text is a sequence of pieces; the pieces of the fixed messages.
EmptyKbMessage == "The RCA knowledge base is currently empty."
NoResultsMessage ==
    "No similar problems were found in the knowledge base. The knowledge base may need to be synced or expanded."
StreamApology == "Sorry, an error occurred while generating the response."
GeneralErrorPrefix ==
    "I encountered an issue while generating a response. The error was: "

\* No chat request is in progress.  An optional value is <<>> or <<value>>.
\* emitted holds the fragments the caller received, consumed counts the
\* chunks taken from the model's stream, persisted holds the contents of the
\* assistant messages the request inserted, gen tells whether the answer's
\* generate_content call was made and how it ended, failed_at names the call
\* whose exception ended the request.
IdleReq ==
    [pc |-> "idle", endpoint |-> "", session_id |-> "", intent_reply |-> <<>>,
     intent |-> "", similar_rcas |-> <<>>, gen |-> "none",
     stub |-> [chunks |-> <<>>, fails |-> "never"], upstream |-> <<>>,
     consumed |-> 0, emitted |-> <<>>, full_response_text |-> <<>>,
     response_text |-> <<>>, persisted |-> <<>>, status |-> "", failed_at |-> "",
     disconnected |-> FALSE]

ChatInit ==
    /\ req = IdleReq
    /\ chat_sessions = {}
    /\ chat_messages = {}
    /\ message_seq = 0
    /\ uuid_seq = 0
    /\ foreign_keys \in ForeignKeysBuilds
    /\ clock = 0
    /\ utc_offset \in UtcOffsets

\* Time passes.
Tick ==
    /\ clock < MaxClock
    /\ clock' = clock + 1
    /\ UNCHANGED <<chat_sessions, chat_messages, message_seq, uuid_seq,
                   foreign_keys, utc_offset>>
    /\ UNCHANGED <<syncVars, search_out, req>>

\* Lines 329-337.  title is None when the request gives none.
create_chat_session(title) ==
    /\ uuid_seq < MaxSessions
    /\ uuid_seq' = uuid_seq + 1
    /\ chat_sessions' = chat_sessions \cup
          { [id |-> Uuid(uuid_seq + 1),
             title |-> IF title = None
                       THEN "Chat Session " \o ToString(clock) ELSE title,
             updated_at |-> CurrentTimestamp(clock)] }
    /\ UNCHANGED <<chat_messages, message_seq, foreign_keys, clock, utc_offset>>
    /\ UNCHANGED <<syncVars, search_out, req>>

\* Lines 346-354: UPDATE ... WHERE id = ?
update_session_title(session_id, new_title) ==
    /\ chat_sessions' =
          { IF s.id = session_id
            THEN [s EXCEPT !.title = new_title, !.updated_at = NowIso(clock)]
            ELSE s : s \in chat_sessions }
    /\ UNCHANGED <<chat_messages, message_seq, uuid_seq, foreign_keys, clock,
                   utc_offset>>
    /\ UNCHANGED <<syncVars, search_out, req>>

\* An optional value (None or a value) is <<>> or <<value>>.
\* json.dumps and json.loads of a list of results.
RcasDumps(rcas) == [json_of |-> rcas]
RcasLoads(text) == text.json_of

\* Line 372: json.dumps(matched_rcas) if matched_rcas else None; an empty
\* list is stored as NULL, like None.
RcasJson(matched_rcas) ==
    IF matched_rcas = <<>> \/ matched_rcas[1] = <<>> THEN <<>>
    ELSE << RcasDumps(matched_rcas[1]) >>

\* The rows an INSERT of a message leaves in chat_messages.
InsertMessage(msgs, seq, session_id, message_type, content, matched_rcas) ==
    msgs \cup { [id |-> seq + 1, session_id |-> session_id,
                 message_type |-> message_type, content |-> content,
                 matched_rcas |-> matched_rcas] }

\* Line 377: UPDATE chat_sessions SET updated_at = ? WHERE id = ?
BumpSession(sessions, session_id, t) ==
    { IF s.id = session_id THEN [s EXCEPT !.updated_at = NowIso(t)] ELSE s
      : s \in sessions }

\* Variant of AddChatMessage: each statement is committed on its own, so an
\* UPDATE that raises leaves the inserted message behind.
AddChatMessageAutocommit(sessions, msgs, seq, t, session_id, message_type, content, matched_rcas) ==
    { [raised |-> FALSE,
       sessions |-> BumpSession(sessions, session_id, t),
       msgs |-> InsertMessage(msgs, seq, session_id, message_type, content,
                              RcasJson(matched_rcas)),
       seq |-> seq + 1],
      [raised |-> TRUE, sessions |-> sessions,
       msgs |-> InsertMessage(msgs, seq, session_id, message_type, content,
                              RcasJson(matched_rcas)),
       seq |-> seq + 1],
      [raised |-> TRUE, sessions |-> sessions, msgs |-> msgs, seq |-> seq] }

\* Lines 369-378: the outcomes of one call on the tables given.  The INSERT
\* and the UPDATE run in one transaction of one connection: the commit of
\* line 378 makes both visible; when a statement raises (with foreign keys
\* enforced, the INSERT for a missing session always does) the connection's
\* context manager rolls the transaction back and the exception leaves.
AddChatMessage(sessions, msgs, seq, t, session_id, message_type, content, matched_rcas) ==
    ( IF foreign_keys /\ ~(\E s \in sessions : s.id = session_id)
      THEN {}
      ELSE { [raised |-> FALSE,
              sessions |-> BumpSession(sessions, session_id, t),
              msgs |-> InsertMessage(msgs, seq, session_id, message_type, content,
                                     RcasJson(matched_rcas)),
              seq |-> seq + 1] } )
    \cup { [raised |-> TRUE, sessions |-> sessions, msgs |-> msgs, seq |-> seq] }

add_chat_message(session_id, message_type, content, matched_rcas) ==
    /\ message_seq < MaxMessages
    /\ \E out \in AddChatMessage(chat_sessions, chat_messages, message_seq, clock,
                                  session_id, message_type, content, matched_rcas) :
          /\ chat_sessions' = out.sessions
          /\ chat_messages' = out.msgs
          /\ message_seq' = out.seq
    /\ UNCHANGED <<uuid_seq, foreign_keys, clock, utc_offset>>
    /\ UNCHANGED <<syncVars, search_out, req>>

\* The rows of a set in the order of their ids.
RECURSIVE RowsById(_)
RowsById(rows) ==
    IF rows = {} THEN <<>>
    ELSE LET first == CHOOSE m \in rows : \A n \in rows : m.id <= n.id
         IN  <<first>> \o RowsById(rows \ { first })

\* Lines 356-367: SELECT * FROM chat_messages WHERE session_id = ? ORDER BY
\* timestamp ASC, matched_rcas parsed when it is not NULL.  The store stamps
\* a message when it is inserted, so the order is that of the ids.
get_chat_messages(session_id) ==
    LET rows == RowsById({ m \in chat_messages : m.session_id = session_id })
    IN  [k \in 1..Len(rows) |->
            IF rows[k].matched_rcas # <<>>
            THEN [rows[k] EXCEPT !.matched_rcas = << RcasLoads(@[1]) >>]
            ELSE rows[k]]

\* The messages a DELETE of session session_id leaves: ON DELETE CASCADE acts
\* only when foreign keys are enforced and a session row is deleted.
MessagesAfterDelete(msgs, sessions, session_id, enforced) ==
    IF enforced /\ (\E s \in sessions : s.id = session_id)
    THEN { m \in msgs : m.session_id # session_id }
    ELSE msgs

\* Lines 418-424: DELETE FROM chat_sessions WHERE id = ?, commit.
delete_chat_session(session_id) ==
    /\ chat_sessions' = { s \in chat_sessions : s.id # session_id }
    /\ chat_messages' = MessagesAfterDelete(chat_messages, chat_sessions,
                                            session_id, foreign_keys)
    /\ UNCHANGED <<message_seq, uuid_seq, foreign_keys, clock, utc_offset>>
    /\ UNCHANGED <<syncVars, search_out, req>>

NextChat ==
    \/ Tick
    \/ \E title \in Titles \cup { None } : create_chat_session(title)
    \/ \E id \in SessionIds, title \in Titles : update_session_title(id, title)
    \/ \E id \in SessionIds, type \in { "user", "assistant" }, c \in Contents :
          add_chat_message(id, type, c, <<>>)
    \/ \E id \in SessionIds : delete_chat_session(id)

(***************************************************************************)
(* Similarity search (rca_agent.py 258-285).                               *)
(***************************************************************************)
\* Documents in the store when searches are made, and the largest top_n.
MaxDocs == 3
MaxTopN == 3

\* Distances are fixed-point numbers: DistScale units make a distance of 1.
DistScale == 100000

\* Distances the index reports (squared L2, the collection's default space:
\* never negative), chosen at and around the points where the score rounds
\* or is clamped.
Distances == { 0, 5, 15, 50000, 99995, 100000, 150000 }

\* round(x, 2) of the score num / den, in hundredths: to nearest, ties to even.
RoundHundredths(num, den) ==
    LET scaled == num * 100
        q == scaled \div den
        rem == scaled % den
    IN  IF 2 * rem > den \/ (2 * rem = den /\ q % 2 = 1) THEN q + 1 ELSE q

\* Variant of SimilarityScore: the score is not clamped at 0.
SimilarityScoreUnclamped(distance) ==
    RoundHundredths((DistScale - distance) * 100, DistScale)

\* Lines 279 and 283: round(max(0, (1 - distance)) * 100, 2), in hundredths.
SimilarityScore(distance) ==
    LET clamped == IF DistScale - distance > 0 THEN DistScale - distance ELSE 0
    IN  RoundHundredths(clamped * 100, DistScale)

\* int(id_str) of an id string written by str(id).
StrToInt(id_str) == CHOOSE n \in 0..99 : ToString(n) = id_str

Min(a, b) == IF a < b THEN a ELSE b

NonDecreasing(ds) == \A k \in 1..(Len(ds) - 1) : ds[k] <= ds[k + 1]
Distinct(xs) == \A j, k \in 1..Len(xs) : j # k => xs[j] # xs[k]

\* collection.query(query_embeddings=[e], n_results=k): the ids of up to k
\* entries, nearest first, and their distances.  Which entries are nearest
\* depends on the query; any ranking is possible.
QueryResults(coll, n_results) ==
    LET n == Min(n_results, Cardinality(DOMAIN coll))
    IN  { [ids |-> ids, distances |-> ds] :
            ids \in { xs \in [1..n -> DOMAIN coll] : Distinct(xs) },
            ds \in { xs \in [1..n -> Distances] : NonDecreasing(xs) } }

\* Lines 272-273: SELECT ... WHERE id IN (...); {row[0]: row}
RcaMap(rows, matched_ids) ==
    [id \in { row.id : row \in rows } \cap { matched_ids[k] : k \in 1..Len(matched_ids) }
        |-> CHOOSE row \in rows : row.id = id]

\* Lines 280-284: one result.
SimilarRca(rca, distance) ==
    [rca_id |-> rca.id, filename |-> rca.filename, project_name |-> rca.project_name,
     problems |-> JsonLoads(rca.problems), solutions |-> JsonLoads(rca.solutions),
     root_causes |-> JsonLoads(rca.root_causes),
     similarity_score |-> SimilarityScore(distance)]

\* Lines 275-285: the loop over matched_ids from position i on.
RECURSIVE SimilarRcasFrom(_, _, _, _)
SimilarRcasFrom(i, matched_ids, distances, rca_map) ==
    IF i > Len(matched_ids) THEN <<>>
    ELSE ( IF matched_ids[i] \in DOMAIN rca_map
           THEN << SimilarRca(rca_map[matched_ids[i]], distances[i]) >>
           ELSE <<>> )
         \o SimilarRcasFrom(i + 1, matched_ids, distances, rca_map)

\* Position of an id in matched_ids.
PosIn(xs, x) == CHOOSE k \in 1..Len(xs) : xs[k] = x

\* Variant of SimilarRcas: the results are built in the order of the rows the
\* SELECT returned (by id), each with the distance of its id.
RECURSIVE SimilarRcasOfRows(_, _, _, _)
SimilarRcasOfRows(ids, matched_ids, distances, rca_map) ==
    IF ids = {} THEN <<>>
    ELSE LET first == CHOOSE x \in ids : \A y \in ids : x <= y
         IN  << SimilarRca(rca_map[first], distances[PosIn(matched_ids, first)]) >>
             \o SimilarRcasOfRows(ids \ { first }, matched_ids, distances, rca_map)

SimilarRcasInRowOrder(matched_ids, distances, rca_map) ==
    SimilarRcasOfRows(DOMAIN rca_map, matched_ids, distances, rca_map)

SimilarRcas(matched_ids, distances, rca_map) ==
    SimilarRcasFrom(1, matched_ids, distances, rca_map)

SearchIdle ==
    [called |-> FALSE, raised |-> FALSE, top_n |-> 0, matched_ids |-> <<>>,
     distances |-> <<>>, result |-> <<>>]

\* Lines 258-285.  The embedding call of line 260 may raise; then nothing is
\* returned.  search_out holds the call's outcome until the caller has it.
search_similar_problems(top_n) ==
    /\ ~search_out.called
    /\ \/ search_out' = [SearchIdle EXCEPT !.called = TRUE, !.raised = TRUE,
                                           !.top_n = top_n]
       \/ \E q \in QueryResults(collection, top_n) :
            LET matched_ids == [k \in 1..Len(q.ids) |-> StrToInt(q.ids[k])]
            IN  search_out' =
                  [called |-> TRUE, raised |-> FALSE, top_n |-> top_n,
                   matched_ids |-> matched_ids, distances |-> q.distances,
                   result |-> IF Len(q.ids) = 0 THEN <<>>
                              ELSE SimilarRcas(matched_ids, q.distances,
                                       RcaMap(rca_documents, matched_ids))]
    /\ UNCHANGED <<syncVars, chatVars>>

\* The caller (main.py 131, 170) takes the result.
SearchReturn ==
    /\ search_out.called
    /\ search_out' = SearchIdle
    /\ UNCHANGED <<syncVars, chatVars>>

\* The store and the collection after sync runs that ingested n documents;
\* the documents in indexed are those whose vector upsert was reached.
SearchFilename(k) == [stem |-> "doc" \o ToString(k), suffix |-> ".txt"]

SearchExtData(k) ==
    CHOOSE e \in ExtData : (e.project_name = "P1") <=> (k % 2 = 1)

RECURSIVE IngestedStore(_)
IngestedStore(n) ==
    IF n = 0 THEN [rows |-> {}, seq |-> 0]
    ELSE LET before == IngestedStore(n - 1)
         IN  UpsertDocument(before.rows, before.seq,
                 RowValues(SearchFilename(n), SearchExtData(n), "h1"))

IngestedCollection(indexed) ==
    [id \in { ToString(k) : k \in indexed } |->
        [embedding |-> GetEmbedding(EmbeddingText(SearchExtData(StrToInt(id)).project_name,
                          SearchExtData(StrToInt(id)).problems,
                          SearchExtData(StrToInt(id)).root_causes,
                          SearchExtData(StrToInt(id)).solutions)),
         metadata |-> [filename |-> SearchFilename(StrToInt(id)),
                       project_name |-> SearchExtData(StrToInt(id)).project_name]]]

(***************************************************************************)
(* Chat requests: /chat-simple and /chat (main.py 111-202) and the three   *)
(* model-backed functions they call (rca_agent.py 159-187, 287-326,        *)
(* 388-416).                                                               *)
(***************************************************************************)
\* Chunks in one streamed model response.
MaxChunks == 2

\* search_similar_problems' default top_n (line 258).
DefaultTopN == 5

TechnicalLabel == "technical_problem_solving"
GeneralLabel == "general_knowledge_query"

\* What the model answers to the routing prompt: <<>> when generate_content
\* or response.text raises, <<text>> otherwise.
IntentReplies ==
    { <<>>,
      << <<TechnicalLabel>> >>,
      << <<GeneralLabel>> >>,
      << <<" ", "Technical_Problem_Solving", "\n">> >>,
      << <<"Category: ", TechnicalLabel, ".">> >>,
      << <<"I cannot classify this request.">> >>,
      << <<>> >> }

\* str.lower() and str.strip() of a text.
LowerText(text) == [k \in 1..Len(text) |-> Lower(text[k])]

Spaces == { " ", "\n" }

Strip(text) ==
    LET inked == { k \in 1..Len(text) : text[k] \notin Spaces }
    IN  IF inked = {} THEN <<>>
        ELSE SubSeq(text, CHOOSE k \in inked : \A j \in inked : k <= j,
                          CHOOSE k \in inked : \A j \in inked : k >= j)

\* word in text
Contains(text, word) == \E k \in 1..Len(text) : text[k] = word

\* Variant of get_query_intent: the reply is compared as it came.
get_query_intent_as_written(reply) ==
    IF reply # <<>> /\ Contains(reply[1], TechnicalLabel)
    THEN TechnicalLabel ELSE GeneralLabel

\* Lines 405-416: the label for the model's reply; the except gives the
\* general label.
get_query_intent(reply) ==
    IF reply = <<>> THEN GeneralLabel
    ELSE IF Contains(Strip(LowerText(reply[1])), TechnicalLabel)
         THEN TechnicalLabel
         ELSE GeneralLabel

\* The text the model generates for a recommendation prompt.
RecommendationText == <<"recommendation">>

\* Variant of generate_solution_recommendation: the model is called for
\* every result list.
recommendation_always_generated(similar_rcas) ==
    { [raised |-> FALSE, text |-> RecommendationText, gen |-> "ok"],
      [raised |-> TRUE, text |-> <<>>, gen |-> "failed"] }

\* Lines 287-326: the outcomes of one call.  An empty list gives the fixed
\* message; otherwise generate_content is called outside any try, and its
\* exception leaves the function.
generate_solution_recommendation(similar_rcas) ==
    IF similar_rcas = <<>>
    THEN { [raised |-> FALSE, text |-> <<NoResultsMessage>>, gen |-> "none"] }
    ELSE { [raised |-> FALSE, text |-> RecommendationText, gen |-> "ok"],
           [raised |-> TRUE, text |-> <<>>, gen |-> "failed"] }

\* A deterministic model for the general prompt: the chunks it generates, and
\* whether it fails: never, when generate_content is called, or in the
\* stream after the chunks.
ChunkSeqs == { [k \in 1..n |-> "c" \o ToString(k)] : n \in 0..MaxChunks }
ModelStubs == [chunks : ChunkSeqs, fails : { "never", "call", "stream" }]

\* Lines 159-187: what one call returns with the model stub: a str (kind
\* "str") or, with stream=True, the model's response stream (kind "stream").
\* A blocking call generates the whole text inside generate_content, so any
\* failure of the model raises there.
generate_general_response(rows, stream, stub) ==
    IF rows = {}
    THEN [kind |-> "str", text |-> <<EmptyKbMessage>>, gen |-> "none"]
    ELSE IF stub.fails = "call" \/ (~stream /\ stub.fails = "stream")
    THEN [kind |-> "str", text |-> <<GeneralErrorPrefix, "e">>, gen |-> "failed"]
    ELSE IF stream
    THEN [kind |-> "stream", text |-> <<>>, gen |-> "ok"]
    ELSE [kind |-> "str", text |-> stub.chunks, gen |-> "ok"]

\* Lines 258-285 as the chat handlers call it: the outcomes of one call.
SearchSimilarProblems(top_n) ==
    { [raised |-> TRUE, result |-> <<>>] }
    \cup { [raised |-> FALSE,
            result |-> IF Len(q.ids) = 0 THEN <<>>
                       ELSE LET matched_ids == [k \in 1..Len(q.ids) |-> StrToInt(q.ids[k])]
                            IN  SimilarRcas(matched_ids, q.distances,
                                            RcaMap(rca_documents, matched_ids))]
            : q \in QueryResults(collection, top_n) }

\* request.problem_description
ProblemDescription == <<"the database is timing out again">>

\* The request is over: answered, or ended by an exception.
RequestOver(r) == r.pc \in { "idle", "ended", "broken" } \/ r.disconnected

\* Variant of GeneratorRuns: the generator is driven to its end whether or
\* not the caller is there.
GeneratorRunsRegardless(r) == TRUE

\* stream_generator runs only while the response drives it: once the caller
\* has disconnected, the response is cancelled and the generator is not
\* resumed from the yield or the sleep it is suspended at (187, 188, 191, 177).
GeneratorRuns(r) == ~r.disconnected

\* main.py 117-119 and 159-160: a request arrives and its user message is
\* added; an exception ends the request with status 500.
ChatBegin(endpoint, session_id) ==
    /\ RequestOver(req)
    /\ message_seq + 2 <= MaxMessages
    /\ \E out \in AddChatMessage(chat_sessions, chat_messages, message_seq, clock,
                                  session_id, "user", ProblemDescription, <<>>) :
          /\ chat_sessions' = out.sessions
          /\ chat_messages' = out.msgs
          /\ message_seq' = out.seq
          /\ req' = IF out.raised
                    THEN [IdleReq EXCEPT !.pc = "ended", !.endpoint = endpoint,
                              !.session_id = session_id, !.status = "500",
                              !.failed_at = "user_msg"]
                    ELSE [IdleReq EXCEPT !.pc = "intent", !.endpoint = endpoint,
                              !.session_id = session_id]
    /\ UNCHANGED <<uuid_seq, foreign_keys, clock, utc_offset>>
    /\ UNCHANGED <<syncVars, search_out>>

\* main.py 122 and 163: the intent; /chat then returns its StreamingResponse
\* (198) and the generator waits to be driven.
ChatIntent ==
    /\ req.pc = "intent"
    /\ \E reply \in IntentReplies :
          req' = [req EXCEPT !.intent_reply = reply,
                             !.intent = get_query_intent(reply),
                             !.pc = IF req.endpoint = "chat" THEN "generator"
                                    ELSE "respond",
                             !.status = IF req.endpoint = "chat" THEN "200" ELSE ""]
    /\ UNCHANGED <<chat_sessions, chat_messages, message_seq, uuid_seq,
                   foreign_keys, clock, utc_offset>>
    /\ UNCHANGED <<syncVars, search_out>>

\* The request after an exception left the handler (main.py 143-144) or the
\* generator: pc is "ended" with status 500 for the first, "broken" for the
\* second, whose response has already begun with status 200.
Failed(r, pc, call) ==
    [r EXCEPT !.pc = pc, !.failed_at = call,
              !.status = IF pc = "ended" THEN "500" ELSE r.status]

\* main.py 128-132 and 168-175: search, then the recommendation.  The set of
\* requests the two calls can leave, next at pc when both returned and at
\* failed when one raised.
Specialist(r, next, failed) ==
    UNION { IF so.raised THEN { Failed(r, failed, "search") }
            ELSE { IF g.raised
                   THEN Failed([r EXCEPT !.similar_rcas = <<so.result>>,
                                         !.gen = g.gen], failed, "generate")
                   ELSE [r EXCEPT !.similar_rcas = <<so.result>>, !.gen = g.gen,
                                  !.response_text = <<g.text>>, !.pc = next]
                   : g \in generate_solution_recommendation(so.result) }
            : so \in SearchSimilarProblems(DefaultTopN) }

\* main.py 124-136: /chat-simple computes its response text.
SimpleRespond ==
    /\ req.pc = "respond"
    /\ IF req.intent = TechnicalLabel
       THEN req' \in Specialist(req, "persist", "ended")
       ELSE \E stub \in ModelStubs :
              LET g == generate_general_response(rca_documents, FALSE, stub)
              IN  req' = [req EXCEPT !.stub = stub, !.gen = g.gen,
                                     !.response_text = <<g.text>>, !.pc = "persist"]
    /\ UNCHANGED <<chat_sessions, chat_messages, message_seq, uuid_seq,
                   foreign_keys, clock, utc_offset>>
    /\ UNCHANGED <<syncVars, search_out>>

\* The assistant message is added with the content given (main.py 139, 196).
PersistAssistant(content, failed) ==
    \E out \in AddChatMessage(chat_sessions, chat_messages, message_seq, clock,
                               req.session_id, "assistant", content,
                               IF req.intent = TechnicalLabel
                               THEN req.similar_rcas ELSE <<>>) :
        /\ chat_sessions' = out.sessions
        /\ chat_messages' = out.msgs
        /\ message_seq' = out.seq
        /\ req' = IF out.raised THEN Failed(req, failed, "assistant_msg")
                  ELSE [req EXCEPT !.pc = "ended",
                                   !.persisted = Append(@, content),
                                   !.status = "200"]

\* main.py 138-141: /chat-simple stores the response and returns it.
SimplePersist ==
    /\ req.pc = "persist"
    /\ PersistAssistant(req.response_text[1], "ended")
    /\ UNCHANGED <<uuid_seq, foreign_keys, clock, utc_offset>>
    /\ UNCHANGED <<syncVars, search_out>>

\* main.py 166-191: the generator is started and runs to its first yield, or
\* into its loop.  The specialist's text is one fragment.  The generalist's
\* return value is iterated: a str gives characters, which have no .text, so
\* the first iteration raises and the except yields the apology.
StreamBegin ==
    /\ req.pc = "generator"
    /\ GeneratorRuns(req)
    /\ IF req.intent = TechnicalLabel
       THEN \E r \in Specialist(req, "last_yield", "broken") :
              req' = IF r.pc = "last_yield"
                     THEN [r EXCEPT !.full_response_text = r.response_text[1],
                                    !.emitted = <<r.response_text[1]>>]
                     ELSE r
       ELSE \E stub \in ModelStubs :
              LET g == generate_general_response(rca_documents, TRUE, stub)
              IN  req' = IF g.kind = "str"
                         THEN [req EXCEPT !.stub = stub, !.gen = g.gen,
                                          !.emitted = << <<StreamApology>> >>,
                                          !.pc = "apology_yield"]
                         ELSE [req EXCEPT !.stub = stub, !.gen = g.gen,
                                          !.upstream = stub.chunks, !.pc = "loop"]
    /\ UNCHANGED <<chat_sessions, chat_messages, message_seq, uuid_seq,
                   foreign_keys, clock, utc_offset>>
    /\ UNCHANGED <<syncVars, search_out>>

\* main.py 185-188: the loop takes the next chunk from the model's stream,
\* adds its text to full_response_text and yields it.
StreamChunk ==
    /\ req.pc = "loop"
    /\ GeneratorRuns(req)
    /\ req.upstream # <<>>
    /\ req' = [req EXCEPT !.upstream = Tail(@), !.consumed = @ + 1,
                          !.full_response_text = @ \o <<Head(req.upstream)>>,
                          !.emitted = Append(@, <<Head(req.upstream)>>)]
    /\ UNCHANGED <<chat_sessions, chat_messages, message_seq, uuid_seq,
                   foreign_keys, clock, utc_offset>>
    /\ UNCHANGED <<syncVars, search_out>>

\* main.py 189-191: the stream raises; the except yields the apology, which
\* is not added to full_response_text.
StreamError ==
    /\ req.pc = "loop"
    /\ GeneratorRuns(req)
    /\ req.upstream = <<>>
    /\ req.stub.fails = "stream"
    /\ req' = [req EXCEPT !.emitted = Append(@, <<StreamApology>>),
                          !.gen = "failed", !.pc = "apology_yield"]
    /\ UNCHANGED <<chat_sessions, chat_messages, message_seq, uuid_seq,
                   foreign_keys, clock, utc_offset>>
    /\ UNCHANGED <<syncVars, search_out>>

\* main.py 194-196: after the last yield (the end of the stream, the apology
\* or the specialist's fragment) the generator is resumed and stores
\* full_response_text; an exception of the store ends the generator.
StreamPersist ==
    /\ \/ req.pc = "loop" /\ req.upstream = <<>> /\ req.stub.fails # "stream"
       \/ req.pc \in { "apology_yield", "last_yield" }
    /\ GeneratorRuns(req)
    /\ PersistAssistant(req.full_response_text, "broken")
    /\ UNCHANGED <<uuid_seq, foreign_keys, clock, utc_offset>>
    /\ UNCHANGED <<syncVars, search_out>>

\* The caller of /chat disconnects while the response is in progress.
Disconnect ==
    /\ req.endpoint = "chat"
    /\ req.pc \in { "generator", "loop", "apology_yield", "last_yield" }
    /\ ~req.disconnected
    /\ req' = [req EXCEPT !.disconnected = TRUE]
    /\ UNCHANGED <<chat_sessions, chat_messages, message_seq, uuid_seq,
                   foreign_keys, clock, utc_offset>>
    /\ UNCHANGED <<syncVars, search_out>>

NextRequest ==
    \/ \E endpoint \in { "chat-simple", "chat" }, id \in SessionIds :
          ChatBegin(endpoint, id)
    \/ ChatIntent
    \/ SimpleRespond
    \/ SimplePersist
    \/ StreamBegin
    \/ StreamChunk
    \/ StreamError
    \/ StreamPersist
    \/ Disconnect

\* Sync requests served one at a time by one process.
Next == SyncStep("run1")

Init ==
    /\ SyncInit
    /\ ChatInit
    /\ search_out = SearchIdle

\* The sync reads and writes no chat table, so the foreign-key setting and
\* the time zone play no part in it; its behaviours are explored for the
\* default build on a server in UTC.
InitSync == Init /\ foreign_keys = FALSE /\ utc_offset = 0

Spec == InitSync /\ [][Next]_vars

\* The session store under any sequence of its four operations.
SpecChat == Init /\ [][NextChat]_vars

\* Searches over a store that sync runs have filled.
InitSearch ==
    /\ \E n \in 0..MaxDocs :
         /\ rca_documents = IngestedStore(n).rows
         /\ rowid_seq = IngestedStore(n).seq
         /\ \E indexed \in SUBSET (1..n) : collection = IngestedCollection(indexed)
    /\ sync = [r \in AllRuns |-> IdleRun]
    /\ ChatInit
    /\ search_out = SearchIdle

NextSearch ==
    \/ \E top_n \in 1..MaxTopN : search_similar_problems(top_n)
    \/ SearchReturn

SpecSearch == InitSearch /\ [][NextSearch]_vars

\* Two sync requests in flight together, each served once, by two worker
\* processes over the one database file and the one unchanging bucket: their steps
\* interleave statement by statement, each statement with its commit being
\* one step of the store.
Listed(run) == run.pc \notin { "idle", "aborted" } \/ run.blobs # <<>>

\* The bucket is the same for both runs: a run lists what the other listed.
SyncStartSameSource(r) ==
    /\ sync[r].pc = "idle"
    /\ SyncStart(r)
    /\ \A o \in AllRuns :
          Listed(sync[o]) /\ Listed(sync'[r]) => sync'[r].blobs = sync[o].blobs

SyncOnce(r) ==
    \/ SyncStartSameSource(r)
    \/ SyncListingError(r)
    \/ SyncSkip(r)
    \/ SyncDownload(r)
    \/ SyncExtract(r)
    \/ SyncUpsert(r)
    \/ SyncReread(r)
    \/ SyncEmbed(r)
    \/ SyncVectorUpsert(r)
    \/ SyncReturn(r)

NextConcurrent == \E r \in AllRuns : SyncOnce(r)

SpecConcurrent == InitSync /\ [][NextConcurrent]_vars

\* Chat requests, one at a time, on a server in UTC with one session created
\* and a store that sync runs have left empty or with one document, indexed
\* or not.
InitRequest ==
    /\ \E n \in 0..1 :
         /\ rca_documents = IngestedStore(n).rows
         /\ rowid_seq = IngestedStore(n).seq
         /\ \E indexed \in SUBSET (1..n) : collection = IngestedCollection(indexed)
    /\ sync = [r \in AllRuns |-> IdleRun]
    /\ req = IdleReq
    /\ chat_sessions = { [id |-> Uuid(1), title |-> "T1",
                          updated_at |-> CurrentTimestamp(0)] }
    /\ chat_messages = {}
    /\ message_seq = 0
    /\ uuid_seq = 1
    /\ foreign_keys \in ForeignKeysBuilds
    /\ clock = 0
    /\ utc_offset = 0
    /\ search_out = SearchIdle

SpecRequest == InitRequest /\ [][NextRequest]_vars

(***************************************************************************)
(* Properties of the sync run.                                             *)
(***************************************************************************)
\* The blob at position k of a run's listing, and its filename.
BlobAt(run, k) == run.blobs[k]
FilenameAt(run, k) == Basename(run.blobs[k].name)

\* The blobs a run has classified so far.
Handled(run) == { k \in 1..Len(run.blobs) : run.log[k].cls # "pending" }

\* The store held a row for blob k's filename when the run began, with the
\* hash the source reports for the blob / with another hash.
StoredSameHash(run, k) ==
    /\ FilenameAt(run, k) \in DOMAIN run.existing_files
    /\ run.existing_files[FilenameAt(run, k)] = BlobAt(run, k).md5_hash

StoredOtherHash(run, k) ==
    /\ FilenameAt(run, k) \in DOMAIN run.existing_files
    /\ run.existing_files[FilenameAt(run, k)] # BlobAt(run, k).md5_hash

\* The hash the store holds now for a filename (None when it has no row).
StoredHashNow(filename) == DictGet(ExistingFiles(rca_documents), filename)

\* C1, as first stated: a document whose source hash is the same in two
\* consecutive runs is classified as skipped by the second, with no generate
\* and no embed call made for it.
C1_Original ==
    [][ \A r \in AllRuns :
          ( /\ sync[r].pc \notin { "idle", "done", "aborted" }
            /\ sync[r].i \in sync[r].unchanged
            /\ sync'[r].i = sync[r].i + 1 )
          => /\ sync'[r].log[sync[r].i].cls = "skipped"
             /\ sync'[r].log[sync[r].i].gen = 0
             /\ sync'[r].log[sync[r].i].emb = 0 ]_vars

\* C1, amended: when the loop reaches a document whose hash equals the hash
\* stored for its filename at the start of the run, the step it takes for the
\* document counts it as skipped, makes no generate and no embed call for it,
\* and leaves rca_documents and the collection as they are.
C1_SkipUnchanged ==
    [][ \A r \in AllRuns :
          ( /\ sync[r].pc = "loop"
            /\ sync[r].i <= Len(sync[r].blobs)
            /\ StoredSameHash(sync[r], sync[r].i)
            /\ sync'[r] # sync[r]
            /\ sync'[r].pc # "aborted" )
          => /\ sync'[r].i = sync[r].i + 1
             /\ sync'[r].log[sync[r].i] = [NewLogEntry EXCEPT !.cls = "skipped"]
             /\ sync'[r].stats = [sync[r].stats EXCEPT !.skipped = @ + 1]
             /\ rca_documents' = rca_documents
             /\ rowid_seq' = rowid_seq
             /\ collection' = collection ]_vars

\* A stored document with an unchanged digest has been skipped.
C1_Witness ==
    \E k \in Handled(sync["run1"]) :
        /\ StoredSameHash(sync["run1"], k)
        /\ BlobAt(sync["run1"], k).md5_hash # None
        /\ sync["run1"].log[k].cls = "skipped"

\* The row of blob k's filename has the id it had when the run began.
IdPreserved(run, k) ==
    /\ FilenameAt(run, k) \in DOMAIN RowIds(rca_documents)
    /\ RowIds(rca_documents)[FilenameAt(run, k)] = run.ids_before[FilenameAt(run, k)]

\* C2, as first stated: for every document whose hash differs from the hash
\* stored for its filename, the run makes exactly one generate call and
\* exactly one embed call, and the row keeps its id.
C2_Original ==
    \A r \in AllRuns :
        \A k \in Handled(sync[r]) :
            StoredOtherHash(sync[r], k) =>
                /\ sync[r].log[k].gen = 1
                /\ sync[r].log[k].emb = 1
                /\ IdPreserved(sync[r], k)

\* C2, amended: for such a document the run makes at most one generate call
\* and at most one embed call, exactly one of each when it counts the
\* document as updated; it counts the document as updated or as an error;
\* and the row keeps its id in either case.
C2_OneCallEachIdKept ==
    \A r \in AllRuns :
        \A k \in Handled(sync[r]) :
            StoredOtherHash(sync[r], k) =>
                /\ sync[r].log[k].gen <= 1
                /\ sync[r].log[k].emb <= 1
                /\ sync[r].log[k].cls \in { "updated", "errors" }
                /\ sync[r].log[k].cls = "updated" =>
                      (sync[r].log[k].gen = 1 /\ sync[r].log[k].emb = 1)
                /\ sync[r].log[k].cls = "errors" => sync[r].log[k].failed # ""
                /\ IdPreserved(sync[r], k)

\* A document with a changed hash has been updated in place.
C2_Witness ==
    \E k \in Handled(sync["run1"]) :
        /\ StoredOtherHash(sync["run1"], k)
        /\ sync["run1"].log[k].cls = "updated"
        /\ StoredHashNow(FilenameAt(sync["run1"], k)) = BlobAt(sync["run1"], k).md5_hash

\* C3: when a run has returned, the hash stored for the filename of every
\* document it counted in errors differs from the source hash, so that the
\* next run does not skip the document.
C3_ErrorsLeftUnmatched ==
    \A r \in AllRuns :
        sync[r].pc = "done" =>
            \A k \in 1..Len(sync[r].blobs) :
                sync[r].log[k].cls = "errors" =>
                    StoredHashNow(FilenameAt(sync[r], k)) # BlobAt(sync[r], k).md5_hash

\* The embedding and the shadow metadata computed from a row's stored columns.
EntryFor(row) ==
    [embedding |-> GetEmbedding(EmbeddingText(row.project_name,
                       JsonLoads(row.problems), JsonLoads(row.root_causes),
                       JsonLoads(row.solutions))),
     metadata |-> [filename |-> row.filename, project_name |-> row.project_name]]

\* C4: whenever no sync run is in progress, every row of rca_documents has a
\* collection entry under its id, computed from the row's stored columns.
C4_EntryPerDocument ==
    (\A r \in AllRuns : sync[r].pc \in { "idle", "done", "aborted" }) =>
        \A row \in rca_documents :
            /\ ToString(row.id) \in DOMAIN collection
            /\ collection[ToString(row.id)] = EntryFor(row)

\* C5: a failure while a document is processed never aborts the run.  Every
\* document on which a step failed has been counted in errors and the loop
\* has gone on past it; the run returns only when every document it
\* enumerated has been classified; and a document classified as processed or
\* updated, also after an earlier one failed, has its row in rca_documents
\* and its entry in the collection.
C5_FailureDoesNotAbort ==
    \A r \in AllRuns :
        /\ \A k \in 1..Len(sync[r].blobs) :
              sync[r].log[k].failed # "" =>
                  (sync[r].log[k].cls = "errors" /\ sync[r].i > k)
        /\ sync[r].pc = "done" => Handled(sync[r]) = 1..Len(sync[r].blobs)
        /\ sync[r].pc \notin { "idle", "aborted" } =>
              Handled(sync[r]) = 1..(sync[r].i - 1)
        /\ \A k \in Handled(sync[r]) :
              sync[r].log[k].cls \in { "processed", "updated" } =>
                  /\ FilenameAt(sync[r], k) \in DOMAIN RowIds(rca_documents)
                  /\ ToString(RowIds(rca_documents)[FilenameAt(sync[r], k)])
                        \in DOMAIN collection

\* A run has returned in which the first document failed and the second one
\* was ingested into both stores.
C5_Witness ==
    /\ sync["run1"].pc = "done"
    /\ Len(sync["run1"].blobs) >= 2
    /\ sync["run1"].log[1].cls = "errors"
    /\ sync["run1"].log[2].cls = "processed"
    /\ StoredHashNow(FilenameAt(sync["run1"], 2)) = BlobAt(sync["run1"], 2).md5_hash
    /\ ToString(RowIds(rca_documents)[FilenameAt(sync["run1"], 2)]) \in DOMAIN collection

\* The step of run r that ends the store upsert or the re-read of the id by
\* raising: neither statement leads on to the next one.
StoreErrorStep(r) ==
    /\ sync'[r] # sync[r]
    /\ \/ sync[r].pc = "upsert" /\ sync'[r].pc # "reread"
       \/ sync[r].pc = "reread" /\ sync'[r].pc # "embed"

\* C6, as first stated: a store error raised by the upsert or by the re-read
\* is not caught per document; it aborts the run and is not counted in errors.
C6_Original ==
    [][ \A r \in AllRuns :
          StoreErrorStep(r) =>
              /\ sync'[r].pc = "aborted"
              /\ sync'[r].stats.errors = sync[r].stats.errors ]_vars

\* C6, amended: a store error raised by the upsert or by the re-read is
\* caught per document: the document is counted in errors and the loop goes
\* on to the next one.  A run is aborted only by an error in the listing or
\* in the load of the stored hashes: before its loop or at the head of the
\* loop, with no document counted by the step.
C6_StoreErrorCounted ==
    [][ \A r \in AllRuns :
          /\ StoreErrorStep(r) =>
                /\ sync'[r].pc = "loop"
                /\ sync'[r].i = sync[r].i + 1
                /\ sync'[r].stats = [sync[r].stats EXCEPT !.errors = @ + 1]
                /\ sync'[r].log[sync[r].i].cls = "errors"
                /\ sync'[r].blobs = sync[r].blobs
          /\ (sync'[r].pc = "aborted" /\ sync[r].pc # "aborted") =>
                \/ sync[r].pc \in { "idle", "done" }
                \/ /\ sync[r].pc = "loop"
                   /\ sync'[r].log = sync[r].log
                   /\ sync'[r].stats = sync[r].stats ]_vars

\* A run has gone on and returned after a store error on its first document.
C6_Witness ==
    /\ sync["run1"].pc = "done"
    /\ Len(sync["run1"].blobs) >= 2
    /\ sync["run1"].log[1].failed \in { "upsert", "reread" }
    /\ sync["run1"].log[2].cls \in { "processed", "updated" }
    /\ sync["run1"].stats.errors = 1

(***************************************************************************)
(* Properties of the chat tables.                                          *)
(***************************************************************************)
\* C7: when delete_chat_session(id) has removed the session, no message with
\* session_id = id is left in chat_messages.
C7_DeleteRemovesMessages ==
    [][ \A id \in SessionIds :
          ( /\ \E s \in chat_sessions : s.id = id
            /\ ~(\E s \in chat_sessions' : s.id = id) )
          => ~(\E m \in chat_messages' : m.session_id = id) ]_vars

\* C8: every message in chat_messages references a session in chat_sessions.
C8_NoOrphanMessages ==
    \A m \in chat_messages : \E s \in chat_sessions : s.id = m.session_id

\* C17: add_chat_message is atomic.  Every step of it either leaves the two
\* chat tables as they were, or inserts the message and, when the session
\* exists, leaves its updated_at at the time of the call: never one write
\* without the other.
C17_AppendAtomic ==
    [][ \A id \in SessionIds, type \in { "user", "assistant" }, c \in Contents :
          add_chat_message(id, type, c, <<>>) =>
              \/ /\ chat_messages' = chat_messages
                 /\ chat_sessions' = chat_sessions
                 /\ message_seq' = message_seq
              \/ /\ \E m \in chat_messages' \ chat_messages :
                        /\ m.session_id = id
                        /\ chat_messages' = chat_messages \cup { m }
                 /\ { s.id : s \in chat_sessions' } = { s.id : s \in chat_sessions }
                 /\ \A s \in chat_sessions' :
                        IF s.id = id THEN s.updated_at = NowIso(clock)
                        ELSE s \in chat_sessions ]_vars

\* A message was appended to a session whose updated_at is the time of an
\* append and no longer the creation default.
C17_Witness ==
    \E s \in chat_sessions :
        /\ s.updated_at.sep = 1
        /\ s.title \notin Titles
        /\ \E m \in chat_messages : m.session_id = s.id

\* C18: a step that appends a message leaves no session with an updated_at
\* smaller than the one it had.
C18_UpdatedAtNeverDecreases ==
    [][ message_seq' = message_seq + 1 =>
          \A s \in chat_sessions, s2 \in chat_sessions' :
              s.id = s2.id => TsLeq(s.updated_at, s2.updated_at) ]_vars

\* C19: get_chat_messages gives the empty sequence for every id that is not
\* the id of a session in chat_sessions.
C19_NoMessagesForMissingSession ==
    \A id \in SessionIds :
        ~(\E s \in chat_sessions : s.id = id) => get_chat_messages(id) = <<>>

(***************************************************************************)
(* Properties of the similarity search.                                    *)
(***************************************************************************)
\* The distance the index reported for the k-th result of the search.
ResultDistance(k) ==
    search_out.distances[PosIn(search_out.matched_ids, search_out.result[k].rca_id)]

\* C9: a search that returns gives at most top_n results, each for an id the
\* index returned, in the relative order in which the index returned the ids.
C9_AtMostTopNInRankOrder ==
    (search_out.called /\ ~search_out.raised) =>
        /\ Len(search_out.result) <= search_out.top_n
        /\ \A k \in 1..Len(search_out.result) :
              \E p \in 1..Len(search_out.matched_ids) :
                  search_out.matched_ids[p] = search_out.result[k].rca_id
        /\ \A j, k \in 1..Len(search_out.result) :
              j < k => PosIn(search_out.matched_ids, search_out.result[j].rca_id)
                         < PosIn(search_out.matched_ids, search_out.result[k].rca_id)

\* A search over more than top_n indexed documents returned top_n results,
\* ranked otherwise than by id.
C9_Witness ==
    /\ search_out.called /\ ~search_out.raised
    /\ search_out.top_n >= 2
    /\ Cardinality(DOMAIN collection) > search_out.top_n
    /\ Len(search_out.result) = search_out.top_n
    /\ search_out.result[1].rca_id > search_out.result[2].rca_id

\* C10: every score of a search result lies in [0, 100] (0..10000
\* hundredths), is 0 when the distance is 1 or more, and is no larger than
\* the score of any result with a smaller or equal distance.
C10_ScoreRange ==
    (search_out.called /\ ~search_out.raised) =>
        \A k \in 1..Len(search_out.result) :
            /\ search_out.result[k].similarity_score \in 0..10000
            /\ ResultDistance(k) >= DistScale =>
                  search_out.result[k].similarity_score = 0
            /\ \A j \in 1..Len(search_out.result) :
                  ResultDistance(j) <= ResultDistance(k) =>
                      search_out.result[j].similarity_score
                          >= search_out.result[k].similarity_score

\* A search returned a result scored strictly between 0 and 100, one at a
\* rounding tie below distance 1, and one beyond distance 1 scored 0.
C10_Witness ==
    /\ search_out.called /\ ~search_out.raised
    /\ Len(search_out.result) = 3
    /\ search_out.result[1].similarity_score \in 1..9999
    /\ ResultDistance(2) = 99995 /\ search_out.result[2].similarity_score = 0
    /\ ResultDistance(3) > DistScale /\ search_out.result[3].similarity_score = 0

\* ---------------------------------------------------------------------
\* Chat requests
\* ---------------------------------------------------------------------

\* "".join of a sequence of texts.
RECURSIVE ConcatAll(_)
ConcatAll(texts) ==
    IF texts = <<>> THEN <<>> ELSE Head(texts) \o ConcatAll(Tail(texts))

\* A /chat request whose generator ran to its end without an exception
\* leaving it.
StreamCompleted ==
    req.endpoint = "chat" /\ req.pc = "ended" /\ req.failed_at = ""

\* C11: in a streamed /chat response that has completed, the assistant
\* message was persisted exactly once, after the last fragment, and its
\* content is the concatenation, in order, of all fragments emitted to the
\* caller, which for the general path are the model's chunks in arrival order.
C11_PersistedIsWhatWasEmitted ==
    StreamCompleted =>
        /\ Len(req.persisted) = 1
        /\ req.persisted[1] = ConcatAll(req.emitted)
        /\ Cardinality({ m \in chat_messages : m.message_type = "assistant" }) = 1

C13_StreamedEqualsBlocking ==
    StreamCompleted /\ req.intent = GeneralLabel =>
        ConcatAll(req.emitted)
            = generate_general_response(rca_documents, FALSE, req.stub).text

\* C14: a failed generate call never leaves the Recommendation Generator as
\* an exception, in technical and in general mode, and its request ends
\* with an assistant message.
C14_GenerateFailureIsAnswered ==
    req.gen = "failed" =>
        /\ req.failed_at # "generate"
        /\ req.pc \in { "ended", "broken" } /\ req.failed_at = ""
               => req.persisted # <<>>

\* The request has its intent.
Routed == req.pc \notin { "idle", "intent" } /\ req.failed_at # "user_msg"

\* C15: get_query_intent returns one of the two labels, the technical one
\* exactly when the model call succeeded and its lower-cased reply contains
\* that label, and the request goes on to its response.
C15_IntentIsOneOfTwoLabels ==
    Routed =>
        /\ req.intent \in { TechnicalLabel, GeneralLabel }
        /\ req.intent = TechnicalLabel
             <=> /\ req.intent_reply # <<>>
                 /\ \E k \in 1..Len(req.intent_reply[1]) :
                        Lower(req.intent_reply[1][k]) = TechnicalLabel
        /\ req.failed_at # "intent"

\* A reply that holds the label capitalised and between white space was
\* routed to the specialist; a failed call was routed to the generalist.
C15_Witness ==
    /\ Routed
    /\ req.intent_reply = << <<" ", "Technical_Problem_Solving", "\n">> >>
    /\ req.intent = TechnicalLabel

\* C16: generate_solution_recommendation called with an empty result list
\* returns the fixed message without calling the model, from /chat-simple
\* and from /chat.
C16_EmptyResultsFixedMessage ==
    req.intent = TechnicalLabel /\ req.similar_rcas = << <<>> >> =>
        /\ req.gen = "none"
        /\ req.response_text = << <<NoResultsMessage>> >>
        /\ req.failed_at # "generate"

\* /chat answered a technical query with no similar document.
C16_Witness ==
    /\ StreamCompleted
    /\ req.intent = TechnicalLabel
    /\ req.similar_rcas = << <<>> >>
    /\ req.emitted = << <<NoResultsMessage>> >>
    /\ req.persisted = << <<NoResultsMessage>> >>

\* ---------------------------------------------------------------------
\* Concurrent sync runs
\* ---------------------------------------------------------------------

FilenameUnique ==
    \A row \in rca_documents, other \in rca_documents :
        row.filename = other.filename => row = other

IdsKept ==
    \A row \in rca_documents :
        \E after \in rca_documents' :
            after.filename = row.filename /\ after.id = row.id

\* C20: under any interleaving of two sync runs, no two rows of
\* rca_documents have the same filename, and a step of either run leaves
\* every filename that has a row with the id it had.
C20_UniqueFilenameStableId == []FilenameUnique /\ [][IdsKept]_vars

\* Both runs began on the empty store with the same blob first, each of them
\* has upserted it, and the store holds its one row.
C20_Witness ==
    /\ \A r \in AllRuns :
         /\ sync[r].pc = "done"
         /\ sync[r].existing_files = <<>>
         /\ Len(sync[r].blobs) >= 1
         /\ sync[r].blobs[1].name = sync["run1"].blobs[1].name
         /\ sync[r].log[1].cls \in { "processed", "updated" }
    /\ Cardinality(rca_documents) = 1

\* ---------------------------------------------------------------------
\* Classification of the documents of a sync run
\* ---------------------------------------------------------------------

\* C24: a document whose filename had no row when the run began is never
\* classified as skipped, whatever hash the source reports for it, None
\* included.
C24_NewDocumentNeverSkipped ==
    \A r \in AllRuns :
        \A k \in Handled(sync[r]) :
            FilenameAt(sync[r], k) \notin DOMAIN sync[r].existing_files
                => sync[r].log[k].cls # "skipped"

SyncClasses == { "processed", "updated", "skipped", "errors" }

\* The documents of a run counted under cls.
CountedAs(run, cls) == { k \in 1..Len(run.blobs) : run.log[k].cls = cls }

\* C25: when a run has returned, every document it enumerated is in exactly
\* one of the four classes, each count is the number of documents in its
\* class, and the four counts sum to the number of documents enumerated.
C25_CountsSumToEnumerated ==
    \A r \in AllRuns :
        sync[r].pc = "done" =>
            /\ \A k \in 1..Len(sync[r].blobs) : sync[r].log[k].cls \in SyncClasses
            /\ \A cls \in SyncClasses :
                  sync[r].stats[cls] = Cardinality(CountedAs(sync[r], cls))
            /\ sync[r].stats.processed + sync[r].stats.updated
                  + sync[r].stats.skipped + sync[r].stats.errors
                  = Len(sync[r].blobs)

\* A run has returned two documents in two different classes, one of them
\* errors.
C25_Witness ==
    /\ sync["run1"].pc = "done"
    /\ Len(sync["run1"].blobs) = 2
    /\ sync["run1"].stats.errors = 1
    /\ sync["run1"].stats.updated = 1

\* The step of run r at which the extractor returns for the current document.
ExtractorReturns(r) == sync[r].pc = "extract" /\ sync'[r] # sync[r]

\* C26: when the extractor yields nothing for a document, the step counts it
\* in errors and leaves rca_documents, with the stored hash, and the
\* collection as they were; a row is written only from a whole record.
C26_NoResultLeavesStores ==
    [][ \A r \in AllRuns :
          ExtractorReturns(r) /\ sync'[r].pc # "upsert" =>
              /\ sync'[r].log[sync[r].i].cls = "errors"
              /\ sync'[r].log[sync[r].i].failed = "extract"
              /\ sync'[r].stats = [sync[r].stats EXCEPT !.errors = @ + 1]
              /\ sync'[r].i = sync[r].i + 1
              /\ rca_documents' = rca_documents
              /\ rowid_seq' = rowid_seq
              /\ collection' = collection ]_vars

\* The extractor gave nothing for a changed document that has its row and
\* its entry: the row still holds the hash it had when the run began.
C26_Witness ==
    \E k \in Handled(sync["run1"]) :
        /\ sync["run1"].log[k].failed = "extract"
        /\ StoredOtherHash(sync["run1"], k)
        /\ StoredHashNow(FilenameAt(sync["run1"], k))
              = sync["run1"].existing_files[FilenameAt(sync["run1"], k)]
        /\ ToString(RowIds(rca_documents)[FilenameAt(sync["run1"], k)])
              \in DOMAIN collection

\* ---------------------------------------------------------------------
\* What a chat request leaves in the session
\* ---------------------------------------------------------------------

\* C21: on the general path of /chat, when the model's stream has failed
\* after some fragments were received, the text accumulated from them is not
\* what is persisted as the assistant message.
C21_PartialTextNotPersisted ==
    ( /\ req.endpoint = "chat"
      /\ req.intent = GeneralLabel
      /\ req.stub.fails = "stream"
      /\ req.gen = "failed"
      /\ req.consumed >= 1 )
    => \A k \in 1..Len(req.persisted) : req.persisted[k] # req.full_response_text

\* The request has been answered: its handler, or its generator, ran to the
\* end with no exception.
Answered == req.pc = "ended" /\ req.failed_at = ""

\* The text the caller of the request received.
Delivered ==
    IF req.endpoint = "chat" THEN ConcatAll(req.emitted) ELSE req.response_text[1]

\* C22: a general query answered while rca_documents is empty is delivered
\* the fixed message, from both endpoints, the same text is persisted as the
\* assistant message, and the model is not called for the answer.
C22_EmptyStoreFixedMessage ==
    Answered /\ req.intent = GeneralLabel /\ rca_documents = {} =>
        /\ Delivered = <<EmptyKbMessage>>
        /\ req.persisted = << <<EmptyKbMessage>> >>
        /\ req.gen = "none"

\* C23: a request that the caller did not cancel and that is over, ended by
\* no error of the message store, has left one user message and, after it,
\* one assistant message, whichever search or generation step failed.
C23_UserMessageIsAnswered ==
    ( /\ req.pc \in { "ended", "broken" }
      /\ ~req.disconnected
      /\ req.failed_at \notin { "user_msg", "assistant_msg" } )
    => /\ Len(req.persisted) = 1
       /\ \E u \in chat_messages, a \in chat_messages :
             /\ u.session_id = req.session_id /\ u.message_type = "user"
             /\ a.session_id = req.session_id /\ a.message_type = "assistant"
             /\ u.id < a.id

====
